---- MODULE Spec2Model ----
(***************************************************************************)
(* Turn-taking pipeline of LiveSpeechRecognition (src/main.py).            *)
(*                                                                         *)
(* Threads of the program:                                                 *)
(*   - the caller of start_listening / stop_listening (the main thread),   *)
(*   - one _listen_loop thread per start_listening call,                   *)
(*   - the workers of ThreadPoolExecutor(max_workers=3), which run         *)
(*     _process_with_ai and _speak tasks in FIFO order of submission.      *)
(* Every action is one stretch of code between two accesses to the shared  *)
(* fields that another thread can interleave with.                         *)
(*                                                                         *)
(* Text is a sequence of one-character strings, so that lower(), ==, `in`  *)
(* and + are computed as Python computes them.  Of the layout only the     *)
(* "output" panel is kept; the footer and input panels carry status text   *)
(* that nothing reads.                                                     *)
(***************************************************************************)
EXTENDS Naturals, Sequences, FiniteSets

VARIABLES
    is_listening,           \* self.is_listening
    is_processing,          \* self.is_processing
    stop_requested,         \* self.stop_requested
    groq_client,            \* TRUE: a Groq client object, FALSE: None
    trigger_word,           \* self.trigger_word (already lower-cased)
    memory,                 \* self.memory: list of {"role", "content"}
    transcription_history,  \* self.transcription_history
    error_log,              \* self.error_log
    output,                 \* the "output" panel of the layout
    loops,                  \* the _listen_loop threads, in order of creation
    tasks,                  \* everything submitted to thread_pool, in order
    just_stopped,           \* history: the last step was a stop_listening call
    heard                   \* number of clips sent to recognize_google

vars == <<is_listening, is_processing, stop_requested, groq_client,
          trigger_word, memory, transcription_history, error_log, output,
          loops, tasks, just_stopped, heard>>

----------------------------------------------------------------------------
(* Bounds of the exploration *)

MaxUtterances == 2      \* clips transcribed (Ok or RequestError) in a run
MaxStarts == 2          \* calls of start_listening in a run of SpecApi
MaxApiUtterances == 2   \* clips transcribed in a run of SpecApi
MaxLongUtterances == 3  \* clips transcribed in a run of SpecLong

(* Program constant *)
max_workers == 3

----------------------------------------------------------------------------
(* Text *)

Lower(c) ==
    CASE c = "B" -> "b"
      [] c = "S" -> "s"
      [] c = "T" -> "t"
      [] c = "O" -> "o"
      [] c = "P" -> "p"
      [] c = "H" -> "h"
      [] OTHER   -> c

\* str.lower()
lower(s) == [i \in 1..Len(s) |-> Lower(s[i])]

\* sub in s  (substring containment)
contains(sub, s) ==
    \E i \in 0..Len(s) :
        /\ i + Len(sub) <= Len(s)
        /\ \A j \in 1..Len(sub) : s[i + j] = sub[j]

STOP == <<"s", "t", "o", "p">>
ECHO_PREFIX == <<"E", "c", "h", "o", ":", " ">>

\* what recognize_google can return
Utterances ==
    { <<"S", "t", "o", "p">>,
      <<"s", "t", "o", "p", " ", "B", "o", "b">>,
      <<"h", "i">> }

\* trigger_word: str = "bob"
DEFAULT_TRIGGER_WORD == <<"b", "o", "b">>

\* what the constructor can be given as trigger_word
TriggerWords == { DEFAULT_TRIGGER_WORD, <<"S", "t", "o", "p">> }

\* chunk.choices[0].delta.content: a string or None
Frag(s) == [none |-> FALSE, text |-> s]
NoneFrag == [none |-> TRUE, text |-> <<>>]

\* the streams the Responder can produce
Streams ==
    { <<NoneFrag>>,
      <<Frag(<<"o">>), Frag(<<"k">>)>> }

\* chunk.choices[0].delta.content or ""
content_or_empty(chunk) == IF chunk.none THEN <<>> ELSE chunk.text

Turn(role, content) == [role |-> role, content |-> content]

\* the "output" panel: _update_output / _update_spinner_output
Panel(title, message) == [title |-> title, message |-> message]
Spinner == <<"dots">>

\* f"personality: {self.personality}", the content of the system message
PERSONALITY == <<"p">>

----------------------------------------------------------------------------
(* Threads and tasks *)

\* a _listen_loop thread: where it is, the transcript it is handling, and
\* a history field: an AI-turn task was in flight when line 106 let the
\* transcript through
LoopThread(pc, text, in_flight) ==
    [pc |-> pc, text |-> text, in_flight |-> in_flight]

\* a task submitted to thread_pool: its argument, its position, its locals
\* (stream: the fragments `completion` yields, pos: how many were consumed,
\* ai_response), failed: it is leaving through its except block, and two
\* history fields: stop_raised, stop_requested became true while the task
\* still had fragments to consume, and stale_stop, the task was submitted
\* with stop_requested true and no AI-turn task in flight
AiTask(user_input) ==
    [kind |-> "ai", arg |-> user_input, pc |-> "queued", stream |-> <<>>,
     pos |-> 0, ai_response |-> <<>>, failed |-> FALSE,
     stop_raised |-> FALSE, stale_stop |-> FALSE]
SpeakTask(text) ==
    [kind |-> "speak", arg |-> text, pc |-> "queued", stream |-> <<>>,
     pos |-> 0, ai_response |-> <<>>, failed |-> FALSE,
     stop_raised |-> FALSE, stale_stop |-> FALSE]

\* a task past the last use of its locals (in its except or finally block,
\* or returned): only its argument is kept
Leave(task, pc) ==
    [kind |-> task.kind, arg |-> task.arg, pc |-> pc, stream |-> <<>>,
     pos |-> 0, ai_response |-> <<>>,
     failed |-> (pc = "except" \/ (task.failed /\ pc # "done")),
     stop_raised |-> FALSE, stale_stop |-> FALSE]

\* the AI-turn tasks that still have fragments of their stream to consume
MidStream(t) ==
    /\ tasks[t].kind = "ai"
    /\ tasks[t].pc = "iterate"
    /\ tasks[t].pos < Len(tasks[t].stream)

\* stop_requested is assigned True: the tasks in mid-stream when it becomes
\* true are marked
RaiseStop ==
    [t \in 1..Len(tasks) |->
        IF ~stop_requested /\ MidStream(t)
        THEN [tasks[t] EXCEPT !.stop_raised = TRUE]
        ELSE tasks[t]]

\* the AI-turn tasks submitted and not yet returned
AiInFlight == {t \in 1..Len(tasks) : tasks[t].kind = "ai" /\ tasks[t].pc # "done"}

Running(t) == tasks[t].pc \notin {"queued", "done"}

\* ThreadPoolExecutor: a queued task is taken by a free worker, oldest first
CanStart(t) ==
    /\ tasks[t].pc = "queued"
    /\ \A u \in 1..(t - 1) : tasks[u].pc # "queued"
    /\ Cardinality({u \in 1..Len(tasks) : Running(u)}) < max_workers

SetPc(t, pc) ==
    [tasks EXCEPT ![t] = IF pc \in {"except", "finally", "reset_stop", "done"}
                         THEN Leave(tasks[t], pc)
                         ELSE [tasks[t] EXCEPT !.pc = pc]]

TypeOK ==
    /\ is_listening \in BOOLEAN
    /\ is_processing \in BOOLEAN
    /\ stop_requested \in BOOLEAN
    /\ groq_client \in BOOLEAN
    /\ \A i \in 1..Len(memory) : memory[i].role \in {"user", "assistant", "system"}
    /\ \A l \in 1..Len(loops) : loops[l].pc \in {"while", "listen", "input", "exited"}
    /\ \A t \in 1..Len(tasks) : tasks[t].kind \in {"ai", "speak"}

----------------------------------------------------------------------------
(* __init__ *)

construct(word) ==
    /\ is_listening = FALSE
    /\ is_processing = FALSE
    /\ stop_requested = FALSE
    /\ groq_client \in BOOLEAN
    /\ trigger_word = lower(word)
    /\ memory = <<>>
    /\ transcription_history = <<>>
    /\ error_log = <<>>
    /\ output = Panel("", <<>>)
    /\ loops = <<>>
    /\ tasks = <<>>
    /\ just_stopped = FALSE
    /\ heard = 0

\* LiveSpeechRecognition(trigger_word=...)
Init == \E word \in TriggerWords : construct(word)

----------------------------------------------------------------------------
(* The caller's thread *)

start_listening(maxStarts) ==
    /\ Len(loops) < maxStarts
    /\ is_listening' = TRUE
    /\ loops' = Append(loops, LoopThread("while", <<>>, FALSE))
    /\ just_stopped' = FALSE
    /\ UNCHANGED <<is_processing, stop_requested, groq_client, trigger_word,
                   memory, transcription_history, error_log, output, tasks,
                   heard>>

\* the fields of the controller
Controller ==
    [is_listening |-> is_listening, stop_requested |-> stop_requested,
     is_processing |-> is_processing, memory |-> memory,
     transcription_history |-> transcription_history,
     error_log |-> error_log]

\* a slip of line 77: the stop signal toggled instead of set
stop_listening_toggle(c) ==
    [c EXCEPT !.is_listening = FALSE, !.stop_requested = ~c.stop_requested]

\* the assignments of stop_listening
stop_listening_effect(c) ==
    [c EXCEPT !.is_listening = FALSE, !.stop_requested = TRUE]

stop_listening ==
    /\ just_stopped' = TRUE
    /\ LET c == stop_listening_effect(Controller) IN
        /\ is_listening' = c.is_listening
        /\ stop_requested' = c.stop_requested
        /\ is_processing' = c.is_processing
        /\ memory' = c.memory
        /\ transcription_history' = c.transcription_history
        /\ error_log' = c.error_log
    /\ tasks' = RaiseStop
    /\ UNCHANGED <<groq_client, trigger_word, output, loops, heard>>

----------------------------------------------------------------------------
(* _listen_loop *)

SetLoop(l, pc, text) ==
    [loops EXCEPT ![l] = LoopThread(pc, text, pc = "input" /\ AiInFlight # {})]

\* a slip of line 85: the loop condition always true
listen_loop_forever(l) ==
    /\ l <= Len(loops)
    /\ loops[l].pc = "while"
    /\ loops' = [loops EXCEPT ![l].pc = "listen"]
    /\ just_stopped' = FALSE
    /\ UNCHANGED <<is_listening, is_processing, stop_requested, groq_client,
                   trigger_word, memory, transcription_history, error_log,
                   output, tasks, heard>>

\* while self.is_listening:
listen_loop_while(l) ==
    /\ l <= Len(loops)
    /\ loops[l].pc = "while"
    /\ loops' = [loops EXCEPT ![l].pc = IF is_listening THEN "listen" ELSE "exited"]
    /\ just_stopped' = FALSE
    /\ UNCHANGED <<is_listening, is_processing, stop_requested, groq_client,
                   trigger_word, memory, transcription_history, error_log,
                   output, tasks, heard>>

\* a slip of lines 90-91: WaitTimeoutError not caught, the thread ends
listen_loop_timeout_uncaught(l) ==
    /\ l <= Len(loops)
    /\ loops[l].pc = "listen"
    /\ loops' = [loops EXCEPT ![l].pc = "exited"]
    /\ just_stopped' = FALSE
    /\ UNCHANGED <<is_listening, is_processing, stop_requested, groq_client,
                   trigger_word, memory, transcription_history, error_log,
                   output, tasks, heard>>

\* _capture_audio raises WaitTimeoutError
listen_loop_timeout(l) ==
    /\ l <= Len(loops)
    /\ loops[l].pc = "listen"
    /\ loops' = SetLoop(l, "while", <<>>)
    /\ just_stopped' = FALSE
    /\ UNCHANGED <<is_listening, is_processing, stop_requested, groq_client,
                   trigger_word, memory, transcription_history, error_log,
                   output, tasks, heard>>

\* _process_audio, recognize_google raises UnknownValueError
process_audio_unknown(l) ==
    /\ l <= Len(loops)
    /\ loops[l].pc = "listen"
    /\ loops' = SetLoop(l, "while", <<>>)
    /\ just_stopped' = FALSE
    /\ UNCHANGED <<is_listening, is_processing, stop_requested, groq_client,
                   trigger_word, memory, transcription_history, error_log,
                   output, tasks, heard>>

\* _process_audio, recognize_google raises RequestError
process_audio_request_error(l, maxUtter) ==
    /\ l <= Len(loops)
    /\ loops[l].pc = "listen"
    /\ heard < maxUtter
    /\ heard' = heard + 1
    /\ error_log' = Append(error_log, "Request error")
    /\ loops' = SetLoop(l, "while", <<>>)
    /\ just_stopped' = FALSE
    /\ UNCHANGED <<is_listening, is_processing, stop_requested, groq_client,
                   trigger_word, memory, transcription_history, output,
                   tasks>>

\* a slip of line 103: text == "stop", the transcript not lower-cased
is_stop_exact(text) == text = STOP

\* text.lower() == "stop"
is_stop(text) == lower(text) = STOP

\* _process_audio, recognize_google returns text: lines 101-107 up to the
\* call of _process_input
process_audio(l, text, maxUtter) ==
    /\ l <= Len(loops)
    /\ loops[l].pc = "listen"
    /\ heard < maxUtter
    /\ heard' = heard + 1
    /\ transcription_history' = Append(transcription_history, text)
    /\ IF is_stop(text)
       THEN /\ stop_requested' = TRUE
            /\ tasks' = RaiseStop
            /\ loops' = SetLoop(l, "while", <<>>)
       ELSE /\ UNCHANGED <<stop_requested, tasks>>
            /\ IF ~is_processing
               THEN loops' = SetLoop(l, "input", text)
               ELSE loops' = SetLoop(l, "while", <<>>)
    /\ just_stopped' = FALSE
    /\ UNCHANGED <<is_listening, is_processing, groq_client, trigger_word,
                   memory, error_log, output>>

\* self.trigger_word in user_input.lower()
triggered(user_input) == contains(trigger_word, lower(user_input))

\* a slip of line 195: the lower-cased transcript echoed
echo_response_lowered(user_input) ==
    Panel("Echo Response", ECHO_PREFIX \o lower(user_input))

\* _echo_response
echo_response(user_input) == Panel("Echo Response", ECHO_PREFIX \o user_input)

\* self.thread_pool.submit(self._process_with_ai, user_input, live)
Submitted(user_input) ==
    [AiTask(user_input) EXCEPT !.stale_stop = stop_requested /\ AiInFlight = {}]

\* _process_input
process_input(l) ==
    /\ l <= Len(loops)
    /\ loops[l].pc = "input"
    /\ LET user_input == loops[l].text IN
        IF triggered(user_input)
        THEN IF groq_client
             THEN /\ is_processing' = TRUE
                  /\ tasks' = Append(tasks, Submitted(user_input))
                  /\ loops' = SetLoop(l, "while", <<>>)
                  /\ UNCHANGED output
             ELSE /\ output' = echo_response(user_input)
                  /\ loops' = SetLoop(l, "while", <<>>)
                  /\ UNCHANGED <<is_processing, tasks>>
        ELSE /\ loops' = SetLoop(l, "while", <<>>)
             /\ UNCHANGED <<is_processing, tasks, output>>
    /\ just_stopped' = FALSE
    /\ UNCHANGED <<is_listening, stop_requested, groq_client, trigger_word,
                   memory, transcription_history, error_log, heard>>

----------------------------------------------------------------------------
(* _process_with_ai, run by a worker of thread_pool *)

\* a slip of lines 129 and 146: the Turn built and not appended
remember_nothing(mem, turn) == mem

\* a slip of lines 129 and 146: the Turn inserted at the front
remember_first(mem, turn) == <<turn>> \o mem

\* self.memory.append(turn)
remember(mem, turn) == Append(mem, turn)

\* a worker takes the task; lines 125-129: the spinner, memory.append(user)
process_with_ai_begin(t) ==
    /\ t <= Len(tasks)
    /\ tasks[t].kind = "ai"
    /\ CanStart(t)
    /\ memory' = remember(memory, Turn("user", tasks[t].arg))
    /\ output' = Panel("Processing...", Spinner)
    /\ tasks' = SetPc(t, "create")
    /\ just_stopped' = FALSE
    /\ UNCHANGED <<is_listening, is_processing, stop_requested, groq_client,
                   trigger_word, transcription_history, error_log, loops,
                   heard>>

\* messages=[{"role": "system", ...}] + self.memory
messages(mem) == <<Turn("system", PERSONALITY)>> \o mem

\* lines 130-140: chat.completions.create, given messages(memory), returns a
\* stream, or raises
process_with_ai_create(t) ==
    /\ t <= Len(tasks)
    /\ tasks[t].kind = "ai"
    /\ tasks[t].pc = "create"
    /\ \/ \E s \in Streams :
            tasks' = [tasks EXCEPT ![t].pc = "iterate", ![t].stream = s]
       \/ tasks' = SetPc(t, "except")
    /\ just_stopped' = FALSE
    /\ UNCHANGED <<is_listening, is_processing, stop_requested, groq_client,
                   trigger_word, memory, transcription_history, error_log,
                   output, loops, heard>>

\* a slip of line 144: the fragment put in front of the text so far
accumulate_prepend(ai_response, chunk) == content_or_empty(chunk) \o ai_response

\* ai_response += chunk.choices[0].delta.content or ""
accumulate(ai_response, chunk) == ai_response \o content_or_empty(chunk)

\* lines 141-144: one turn of `for chunk in completion`: the stream ends, or
\* raises, or yields a chunk, which is dropped when stop_requested is set
process_with_ai_chunk(t) ==
    /\ t <= Len(tasks)
    /\ tasks[t].kind = "ai"
    /\ tasks[t].pc = "iterate"
    /\ \/ tasks' = SetPc(t, "except")
       \/ /\ tasks[t].pos = Len(tasks[t].stream)
          /\ tasks' = SetPc(t, "after_loop")
       \/ /\ tasks[t].pos < Len(tasks[t].stream)
          /\ IF stop_requested
             THEN tasks' = SetPc(t, "after_loop")
             ELSE tasks' = [tasks EXCEPT
                    ![t].pos = @ + 1,
                    ![t].ai_response =
                        accumulate(@, tasks[t].stream[tasks[t].pos + 1])]
    /\ just_stopped' = FALSE
    /\ UNCHANGED <<is_listening, is_processing, stop_requested, groq_client,
                   trigger_word, memory, transcription_history, error_log,
                   output, loops, heard>>

\* lines 145-147: if not self.stop_requested: memory.append(assistant)
process_with_ai_after(t) ==
    /\ t <= Len(tasks)
    /\ tasks[t].kind = "ai"
    /\ tasks[t].pc = "after_loop"
    /\ IF ~stop_requested
       THEN /\ memory' = remember(memory, Turn("assistant", tasks[t].ai_response))
            /\ output' = Panel("AI Response", tasks[t].ai_response)
            /\ tasks' = [tasks EXCEPT ![t].pc = "speak_async",
                                      ![t].stream = <<>>,
                                      ![t].pos = 0,
                                      ![t].stop_raised = FALSE,
                                      ![t].stale_stop = FALSE]
       ELSE /\ tasks' = SetPc(t, "finally")
            /\ UNCHANGED <<memory, output>>
    /\ just_stopped' = FALSE
    /\ UNCHANGED <<is_listening, is_processing, stop_requested, groq_client,
                   trigger_word, transcription_history, error_log, loops,
                   heard>>

\* line 148: self._speak_async(ai_response)
speak_async(t) ==
    /\ t <= Len(tasks)
    /\ tasks[t].kind = "ai"
    /\ tasks[t].pc = "speak_async"
    /\ tasks' = Append(SetPc(t, "finally"), SpeakTask(tasks[t].ai_response))
    /\ just_stopped' = FALSE
    /\ UNCHANGED <<is_listening, is_processing, stop_requested, groq_client,
                   trigger_word, memory, transcription_history, error_log,
                   output, loops, heard>>

\* lines 149-152: except Exception
process_with_ai_except(t) ==
    /\ t <= Len(tasks)
    /\ tasks[t].kind = "ai"
    /\ tasks[t].pc = "except"
    /\ output' = echo_response(tasks[t].arg)
    /\ error_log' = Append(error_log, "AI processing error")
    /\ tasks' = SetPc(t, "finally")
    /\ just_stopped' = FALSE
    /\ UNCHANGED <<is_listening, is_processing, stop_requested, groq_client,
                   trigger_word, memory, transcription_history, loops,
                   heard>>

\* a slip of line 155: the flag not reset when the turn ends
process_with_ai_finally_unreset(t) ==
    /\ t <= Len(tasks)
    /\ tasks[t].kind = "ai"
    /\ tasks[t].pc = "finally"
    /\ tasks' = SetPc(t, "reset_stop")
    /\ just_stopped' = FALSE
    /\ UNCHANGED <<is_listening, is_processing, stop_requested, groq_client,
                   trigger_word, memory, transcription_history, error_log,
                   output, loops, heard>>

\* lines 153-155: finally: self.is_processing = False
process_with_ai_finally(t) ==
    /\ t <= Len(tasks)
    /\ tasks[t].kind = "ai"
    /\ tasks[t].pc = "finally"
    /\ is_processing' = FALSE
    /\ tasks' = SetPc(t, "reset_stop")
    /\ just_stopped' = FALSE
    /\ UNCHANGED <<is_listening, stop_requested, groq_client, trigger_word,
                   memory, transcription_history, error_log, output, loops,
                   heard>>

\* line 156: self.stop_requested = False, and the task returns
process_with_ai_return(t) ==
    /\ t <= Len(tasks)
    /\ tasks[t].kind = "ai"
    /\ tasks[t].pc = "reset_stop"
    /\ stop_requested' = FALSE
    /\ tasks' = SetPc(t, "done")
    /\ just_stopped' = FALSE
    /\ UNCHANGED <<is_listening, is_processing, groq_client, trigger_word,
                   memory, transcription_history, error_log, output, loops,
                   heard>>

----------------------------------------------------------------------------
(* _speak, run by a worker of thread_pool *)

\* a worker takes the task and posts the request
speak_begin(t) ==
    /\ t <= Len(tasks)
    /\ tasks[t].kind = "speak"
    /\ CanStart(t)
    /\ tasks' = SetPc(t, "post")
    /\ just_stopped' = FALSE
    /\ UNCHANGED <<is_listening, is_processing, stop_requested, groq_client,
                   trigger_word, memory, transcription_history, error_log,
                   output, loops, heard>>

SpeakOutcomes == {"played", "status", "exception"}

\* lines 180-192: the reply is played, or the failure is logged; finally
\* self.is_processing = False
speak_finish(t, outcome) ==
    /\ t <= Len(tasks)
    /\ tasks[t].kind = "speak"
    /\ tasks[t].pc = "post"
    /\ error_log' = IF outcome = "played" THEN error_log
                    ELSE Append(error_log, "Error in speech synthesis")
    /\ is_processing' = FALSE
    /\ tasks' = SetPc(t, "done")
    /\ just_stopped' = FALSE
    /\ UNCHANGED <<is_listening, stop_requested, groq_client, trigger_word,
                   memory, transcription_history, output, loops, heard>>

----------------------------------------------------------------------------
(* The program *)

\* one step of the _listen_loop thread l
LoopStep(l, maxUtter) ==
    \/ listen_loop_while(l)
    \/ listen_loop_timeout(l)
    \/ process_audio_unknown(l)
    \/ process_audio_request_error(l, maxUtter)
    \/ \E text \in Utterances : process_audio(l, text, maxUtter)
    \/ process_input(l)

\* one step of a worker of thread_pool on task t
TaskStep(t) ==
    \/ process_with_ai_begin(t)
    \/ process_with_ai_create(t)
    \/ process_with_ai_chunk(t)
    \/ process_with_ai_after(t)
    \/ speak_async(t)
    \/ process_with_ai_except(t)
    \/ process_with_ai_finally(t)
    \/ process_with_ai_return(t)
    \/ speak_begin(t)
    \/ \E outcome \in SpeakOutcomes : speak_finish(t, outcome)

\* the threads are numbered in order of creation; an utterance submits at
\* most one AI-turn task, which submits at most one Speaker task
Step(maxStarts, maxUtter) ==
    \/ start_listening(maxStarts)
    \/ stop_listening
    \/ \E l \in 1..maxStarts : LoopStep(l, maxUtter)
    \/ \E t \in 1..(2 * maxUtter) : TaskStep(t)

\* the program as __main__ runs it: start_listening is called once
Next == Step(1, MaxUtterances)
Spec == Init /\ [][Next]_vars

\* the class driven through its public methods: start_listening is called
\* any number of times
NextApi == Step(MaxStarts, MaxApiUtterances)
SpecApi == Init /\ [][NextApi]_vars

\* a longer session of the program: a third utterance can arrive while the
\* Speaker task of the first turn and the AI turn of the second are running
NextLong == Step(1, MaxLongUtterances)
SpecLong == Init /\ [][NextLong]_vars

\* scheduling: the operating system gives every thread that can run a turn,
\* so a capture loop and a worker holding or able to take a task go on; the
\* caller of start_listening and stop_listening is under no obligation
Fairness ==
    /\ \A l \in 1..1 : WF_vars(LoopStep(l, MaxUtterances))
    /\ \A t \in 1..(2 * MaxUtterances) : WF_vars(TaskStep(t))

\* the program as __main__ runs it, its threads scheduled fairly
SpecFair == Init /\ [][Next]_vars /\ Fairness

----------------------------------------------------------------------------
(* Steps of the threads, as the properties below refer to them *)

\* loop l got `text` from recognize_google and ran lines 101-106 on it
Heard(l, text) ==
    /\ loops[l].pc = "listen"
    /\ loops'[l].pc # "listen"
    /\ transcription_history' = Append(transcription_history, text)

\* loop l ran _process_input
Dispatched(l) == loops[l].pc = "input" /\ loops'[l].pc = "while"

\* task t returned
Returns(t) == tasks[t].pc # "done" /\ tasks'[t].pc = "done"

Loops == 1..Len(loops)
Tasks == 1..Len(tasks)

----------------------------------------------------------------------------
(* C1: single-flight. In every reachable state at most one AI-turn task is
   submitted and not yet returned. *)
C1_SingleFlight == Cardinality(AiInFlight) <= 1

(* C2: an utterance other than "stop" that _process_audio evaluates while an
   AI-turn task is in flight is dropped: neither its evaluation nor any
   later handling of it changes memory, submits a task or produces an echo. *)
C2_DroppedWhileInFlight ==
    [][\A l \in Loops :
        /\ \A text \in Utterances :
            (Heard(l, text) /\ lower(text) # STOP /\ AiInFlight # {})
                => /\ memory' = memory
                   /\ tasks' = tasks
                   /\ output' = output
        /\ (Dispatched(l) /\ loops[l].in_flight)
                => /\ memory' = memory
                   /\ tasks' = tasks
                   /\ output' = output]_vars

(* C3: an utterance whose lower-cased text is "stop" sets stop_requested and
   gets no trigger, echo or AI handling: no task is submitted, the output
   panel, memory and is_processing are unchanged and the loop goes on to its
   next iteration without calling _process_input. *)
C3_StopShortCircuits ==
    [][\A l \in Loops : \A text \in Utterances :
        (Heard(l, text) /\ lower(text) = STOP)
            => /\ stop_requested'
               /\ Len(tasks') = Len(tasks)
               /\ \A t \in Tasks : tasks'[t].pc = tasks[t].pc
               /\ output' = output
               /\ memory' = memory
               /\ is_processing' = is_processing
               /\ loops'[l] = LoopThread("while", <<>>, FALSE)]_vars

\* "Stop" was heard while an AI turn was in flight, the trigger word being
\* "stop" itself
C3_Witness ==
    /\ trigger_word = STOP
    /\ groq_client
    /\ is_processing
    /\ stop_requested
    /\ AiInFlight # {}
    /\ Len(transcription_history) = 2
    /\ transcription_history[2] = <<"S", "t", "o", "p">>

(* C4: once stop_requested became true while an AI-turn task still had
   fragments to consume, that task consumes no further fragment, appends no
   assistant Turn and submits no Speaker task. *)
C4_StopAbortsStream ==
    [][\A t \in Tasks :
        (tasks[t].kind = "ai" /\ tasks[t].stop_raised)
            => /\ tasks'[t].pc = "iterate" => tasks'[t].pos = tasks[t].pos
               /\ tasks'[t].pc # "speak_async"]_vars

(* C5: when an AI-turn task returns, is_processing and stop_requested are
   both false. *)
C5_FlagsResetAtReturn ==
    [][\A t \in Tasks :
        (tasks[t].kind = "ai" /\ Returns(t))
            => (~is_processing' /\ ~stop_requested')]_vars

(* C6: an utterance that contains the trigger word, is not "stop" and is
   evaluated with no AI-turn task in flight and a Responder configured is
   handed to _process_input, which submits exactly one AI-turn task for it;
   the task appends exactly one user Turn with the utterance; and when its
   stream ends with stop_requested false it appends exactly one assistant
   Turn, after the user Turn, holding the concatenation of all fragments. *)
RECURSIVE Concatenation(_)
Concatenation(stream) ==
    IF stream = <<>> THEN <<>>
    ELSE (IF Head(stream).none THEN <<>> ELSE Head(stream).text)
            \o Concatenation(Tail(stream))

CountRole(role) == Cardinality({i \in 1..Len(memory) : memory[i].role = role})

C6_Counts ==
    /\ CountRole("user") =
        Cardinality({t \in Tasks : tasks[t].kind = "ai" /\ tasks[t].pc # "queued"})
    /\ CountRole("assistant") =
        Cardinality({t \in Tasks : tasks[t].kind = "speak"
                                    \/ tasks[t].pc = "speak_async"})

C6_Steps ==
    /\ \A l \in Loops : \A text \in Utterances :
        (/\ Heard(l, text)
         /\ lower(text) # STOP
         /\ contains(trigger_word, lower(text))
         /\ groq_client
         /\ AiInFlight = {})
            => loops'[l] = LoopThread("input", text, FALSE)
    /\ \A l \in Loops :
        (Dispatched(l) /\ contains(trigger_word, lower(loops[l].text)) /\ groq_client)
            => /\ tasks' = Append(tasks, Submitted(loops[l].text))
               /\ memory' = memory
    /\ \A t \in Tasks :
        (tasks[t].kind = "ai" /\ tasks[t].pc = "queued" /\ tasks'[t].pc # "queued")
            => memory' = Append(memory, Turn("user", tasks[t].arg))
    /\ \A t \in Tasks :
        (/\ tasks[t].pc = "after_loop"
         /\ tasks'[t].pc # "after_loop"
         /\ tasks[t].pos = Len(tasks[t].stream)
         /\ ~stop_requested)
            => /\ memory' = Append(memory,
                    Turn("assistant", Concatenation(tasks[t].stream)))
               /\ \E i \in 1..Len(memory) : memory[i] = Turn("user", tasks[t].arg)

C6_OneTurnPerTrigger == []C6_Counts /\ [][C6_Steps]_vars

\* a turn ran to the end of a two-fragment stream: memory is its user Turn
\* followed by the assistant Turn
C6_Witness ==
    /\ Len(memory) = 2
    /\ memory[1] = Turn("user", <<"s", "t", "o", "p", " ", "B", "o", "b">>)
    /\ memory[2] = Turn("assistant", <<"o", "k">>)
    /\ \E t \in Tasks : tasks[t].kind = "speak"

(* C7: echo mode. With no Responder configured, handling an utterance that
   contains the trigger word puts exactly "Echo: " followed by the utterance
   on the output panel, in the capture loop's own step, leaves memory,
   is_processing and stop_requested unchanged and submits no task; in echo
   mode memory stays empty and nothing is ever submitted. *)
C7_Steps ==
    \A l \in Loops :
        (Dispatched(l) /\ contains(trigger_word, lower(loops[l].text)) /\ ~groq_client)
            => /\ output'.message = <<"E", "c", "h", "o", ":", " ">> \o loops[l].text
               /\ memory' = memory
               /\ is_processing' = is_processing
               /\ stop_requested' = stop_requested
               /\ tasks' = tasks

C7_EchoMode ==
    [](~groq_client => (memory = <<>> /\ tasks = <<>> /\ ~is_processing))
        /\ [][C7_Steps]_vars

C7_Witness ==
    /\ ~groq_client
    /\ output.message =
        <<"E", "c", "h", "o", ":", " ", "s", "t", "o", "p", " ", "B", "o", "b">>
    /\ Len(transcription_history) = 1

(* C8: at most one _listen_loop is running, whatever sequence of
   start_listening and stop_listening calls was made. *)
C8_OneLoop == Cardinality({l \in Loops : loops[l].pc # "exited"}) <= 1

(* C9: stop_listening is idempotent. A call leaves is_listening false and
   stop_requested true and changes no other field of the controller, and a
   call that directly follows another call changes no field at all. *)
C9_StopIdempotent ==
    [][/\ just_stopped' =>
            /\ ~is_listening'
            /\ stop_requested'
            /\ is_processing' = is_processing
            /\ memory' = memory
            /\ transcription_history' = transcription_history
            /\ error_log' = error_log
       /\ (just_stopped /\ just_stopped') => Controller' = Controller]_vars

\* stop_listening has just been called while an AI turn was in flight; the
\* next call starts from this state
C9_Witness ==
    /\ just_stopped
    /\ ~is_listening
    /\ stop_requested
    /\ is_processing
    /\ memory # <<>>

(* C10: when the Responder fails, the task puts the echo of its utterance on
   the output panel, appends exactly one entry to error_log, appends no
   assistant Turn, submits no Speaker task, and returns with is_processing
   false. *)
C10_ResponderFailure ==
    [][\A t \in Tasks :
        /\ (tasks[t].pc = "except" /\ tasks'[t].pc # "except")
            => /\ output'.message = <<"E", "c", "h", "o", ":", " ">> \o tasks[t].arg
               /\ Len(error_log') = Len(error_log) + 1
               /\ memory' = memory
               /\ Len(tasks') = Len(tasks)
               /\ tasks'[t].pc = "finally"
        /\ (tasks[t].failed /\ tasks[t].pc = "finally")
            => tasks'[t].pc \in {"finally", "reset_stop"}
        /\ (tasks[t].failed /\ Returns(t)) => ~is_processing']_vars

(* C11: once is_listening is false and start_listening is not called again,
   the capture loop exits: at its next loop check it leaves the loop, having
   finished at most the iteration it was in, and an exited loop does nothing
   more. *)
C11_Steps ==
    \A l \in Loops :
        /\ (loops[l].pc = "while" /\ ~is_listening /\ loops'[l] # loops[l])
                => /\ loops'[l].pc = "exited"
                   /\ transcription_history' = transcription_history
                   /\ tasks' = tasks
        /\ loops[l].pc = "exited" => loops'[l] = loops[l]

C11_LoopExits ==
    /\ (Len(loops) = 1 /\ ~is_listening)
            ~> (Len(loops) = 1 /\ loops[1].pc = "exited")
    /\ [][C11_Steps]_vars

\* the loop has exited after stop_listening, having dispatched the utterance
\* of its last iteration, whose AI turn is still in flight
C11_Witness ==
    /\ Len(loops) = 1
    /\ loops[1].pc = "exited"
    /\ ~is_listening
    /\ AiInFlight # {}

(* C12: in every reachable state, is_processing is true only while exactly
   one AI-turn task is in flight, a task being in flight from the step of
   _process_input that sets the flag and submits it until it returns. *)
C12_FlagTracksTask == is_processing => Cardinality(AiInFlight) = 1

(* C13: stop_requested is cleared only after the in-flight AI-turn task has
   fully completed: no step changes it from true to false while an AI-turn
   task still has fragments of its Responder stream to consume. *)
C13_StopClearedAfterTask ==
    [][(stop_requested /\ ~stop_requested')
        => ~ \E t \in Tasks : MidStream(t)]_vars

(* C14: within an AI turn the user Turn is in memory before the Responder is
   invoked, and the assistant Turn is in memory, after the user Turn, before
   the Speaker task is submitted; a Speaker task is only ever submitted for
   a reply whose assistant Turn is already in memory. *)
C14_Counts ==
    /\ CountRole("user") >=
        Cardinality({t \in Tasks : tasks[t].kind = "ai"
                                    /\ tasks[t].pc \notin {"queued", "create"}})
    /\ CountRole("assistant") >=
        Cardinality({t \in Tasks : tasks[t].kind = "speak"})

C14_Steps ==
    /\ \A t \in Tasks :
        (tasks[t].kind = "ai" /\ tasks[t].pc = "create" /\ tasks'[t].pc # "create")
            => \E i \in 1..Len(memory) : memory[i] = Turn("user", tasks[t].arg)
    /\ \A t \in Tasks :
        (tasks[t].pc = "speak_async" /\ tasks'[t].pc # "speak_async")
            => /\ tasks' = Append(SetPc(t, "finally"), SpeakTask(tasks[t].ai_response))
               /\ \E i, j \in 1..Len(memory) :
                    /\ i < j
                    /\ memory[i] = Turn("user", tasks[t].arg)
                    /\ memory[j] = Turn("assistant", tasks[t].ai_response)
    /\ (Len(tasks') > Len(tasks) /\ tasks'[Len(tasks')].kind = "speak")
            => \E j \in 1..Len(memory) :
                    memory[j] = Turn("assistant", tasks'[Len(tasks')].arg)

C14_TurnOrder == []C14_Counts /\ [][C14_Steps]_vars

\* the Speaker task of a reply has just been submitted: the reply's
\* assistant Turn is the last of memory and its AI turn has not returned
C14_Witness ==
    /\ Len(tasks) = 2
    /\ tasks[1].pc = "finally"
    /\ tasks[2] = SpeakTask(<<"o", "k">>)
    /\ memory = <<Turn("user", tasks[1].arg), Turn("assistant", <<"o", "k">>)>>

(* C15: the Responder is invoked with the system-personality Turn followed
   by the whole memory of that moment, and the last Turn of that history is
   the user Turn this task appended: between the task's append (line 129)
   and its invocation of the Responder no other Turn is appended; the first
   task of a session sends exactly [system, its user Turn]. *)
C15_Steps ==
    \A t \in Tasks :
        /\ (tasks[t].kind = "ai" /\ tasks[t].pc = "queued" /\ tasks'[t].pc = "create")
            => messages(memory')[Len(memory') + 1] = Turn("user", tasks[t].arg)
        /\ (tasks[t].pc = "create" /\ tasks'[t].pc = "create")
            => memory' = memory
        /\ (tasks[t].pc = "create" /\ tasks'[t].pc # "create")
            => /\ Head(messages(memory)) = Turn("system", PERSONALITY)
               /\ Tail(messages(memory)) = memory
               /\ messages(memory)[Len(memory) + 1] = Turn("user", tasks[t].arg)
               /\ t = 1 => messages(memory) =
                    <<Turn("system", PERSONALITY), Turn("user", tasks[t].arg)>>

C15_ResponderHistory == [][C15_Steps]_vars

(* C19: a stop signal raised while no AI-turn task is in flight stays: only
   the return of an AI-turn task makes stop_requested false, and the next
   AI turn, submitted with stop_requested still true, appends its user Turn
   and then nothing: no assistant Turn, no Speaker task. *)
C19_Steps ==
    /\ (stop_requested /\ ~stop_requested')
            => \E t \in Tasks : tasks[t].kind = "ai" /\ Returns(t)
    /\ \A t \in Tasks :
        tasks[t].stale_stop
            => /\ (tasks[t].pc = "queued" /\ tasks'[t].pc # "queued")
                    => /\ stop_requested
                       /\ memory' = Append(memory, Turn("user", tasks[t].arg))
               /\ (tasks[t].pc # "queued" /\ tasks'[t] # tasks[t])
                    => /\ memory' = memory
                       /\ Len(tasks') = Len(tasks)
                       /\ tasks'[t].pc # "speak_async"

C19_StaleStop == [][C19_Steps]_vars

(* C16: memory is append-only. In every step the memory before is a prefix
   of the memory after; only a step of an AI-turn task appends, exactly one
   Turn; steps of the capture loop, stop_listening, start_listening and
   Speaker tasks leave memory unchanged. *)
C16_Steps ==
    /\ Len(memory') >= Len(memory)
    /\ SubSeq(memory', 1, Len(memory)) = memory
    /\ memory' # memory
        => /\ Len(memory') = Len(memory) + 1
           /\ loops' = loops
           /\ ~just_stopped'
           /\ \E t \in Tasks :
                /\ tasks[t].kind = "ai"
                /\ tasks'[t].pc # tasks[t].pc
                /\ \A u \in Tasks \ {t} : tasks'[u] = tasks[u]

C16_AppendOnly == [][C16_Steps]_vars

\* a second turn has appended its user Turn behind the two Turns of the
\* first while the Speaker task of the first is running
C16_Witness ==
    /\ Len(memory) = 3
    /\ memory[3].role = "user"
    /\ \E t \in Tasks : tasks[t].kind = "speak" /\ tasks[t].pc = "post"

(* C17: no capture or transcription outcome ends the capture loop. Whatever
   the outcome (timeout, unintelligible, service error, text), the loop goes
   back to its loop check, through _process_input for a text it handles; a
   service error appends exactly one entry to error_log; at the loop check
   with is_listening true the loop starts its next iteration; the loop
   exits only on finding is_listening false, and only stop_listening makes
   is_listening false. *)
C17_Steps ==
    /\ \A l \in Loops :
        /\ (loops[l].pc = "listen" /\ loops'[l] # loops[l])
            => /\ loops'[l].pc \in {"while", "input"}
               /\ (heard' # heard /\ transcription_history' = transcription_history)
                    => /\ Len(error_log') = Len(error_log) + 1
                       /\ loops'[l].pc = "while"
               /\ heard' = heard => error_log' = error_log
        /\ (loops[l].pc = "input" /\ loops'[l] # loops[l])
            => loops'[l].pc = "while"
        /\ (loops[l].pc = "while" /\ loops'[l] # loops[l] /\ is_listening)
            => loops'[l].pc = "listen"
        /\ (loops[l].pc # "exited" /\ loops'[l].pc = "exited")
            => (loops[l].pc = "while" /\ ~is_listening)
    /\ (is_listening /\ ~is_listening') => just_stopped'

C17_LoopSurvives == [][C17_Steps]_vars

\* the loop is capturing again after a service error and a transcript
C17_Witness ==
    /\ is_listening
    /\ Len(loops) = 1
    /\ loops[1].pc = "listen"
    /\ Len(error_log) = 1
    /\ Len(transcription_history) = 1
    /\ heard = 2

(* C18: whenever is_processing is true it eventually becomes false again,
   and every task submitted to the pool is eventually taken by a worker and
   returns, also while Speaker tasks hold workers: under fair scheduling
   the pool of max_workers workers never leaves is_processing stuck true. *)
C18_FlagFalls ==
    /\ is_processing ~> ~is_processing
    /\ \A t \in 1..(2 * MaxUtterances) :
        (Len(tasks) >= t) ~> (Len(tasks) >= t /\ tasks[t].pc = "done")

\* the second AI turn has run and returned, the flag is false again, and
\* the Speaker task of the first turn still holds a worker
C18_Witness ==
    /\ ~is_processing
    /\ Len(tasks) = 3
    /\ tasks[1].pc = "done"
    /\ tasks[2].kind = "speak" /\ tasks[2].pc = "post"
    /\ tasks[3].kind = "ai" /\ tasks[3].pc = "done"

(* C20: memory holds only user and assistant Turns; every prefix of memory
   holds at least as many user Turns as assistant Turns; an assistant Turn
   is appended only by an AI-turn task that reached the end of its stream,
   so that a turn that broke out of its stream or failed leaves its user
   Turn without an assistant Turn. *)
C20_Shape ==
    /\ \A i \in 1..Len(memory) : memory[i].role \in {"user", "assistant"}
    /\ \A k \in 0..Len(memory) :
        Cardinality({i \in 1..k : memory[i].role = "user"})
            >= Cardinality({i \in 1..k : memory[i].role = "assistant"})

C20_Steps ==
    \A t \in Tasks :
        /\ (tasks[t].kind = "ai" /\ tasks'[t].pc # tasks[t].pc
                /\ \E i \in 1..Len(memory') :
                    i > Len(memory) /\ memory'[i].role = "assistant")
            => (tasks[t].pc = "after_loop"
                    /\ tasks[t].pos = Len(tasks[t].stream))
        /\ (tasks[t].kind = "ai" /\ tasks'[t].pc # tasks[t].pc
                /\ \/ tasks[t].pc = "except"
                   \/ tasks[t].failed
                   \/ (tasks[t].pc = "after_loop"
                            /\ tasks[t].pos < Len(tasks[t].stream)))
            => memory' = memory

C20_MemoryShape == []C20_Shape /\ [][C20_Steps]_vars

====
